---------------------------- MODULE Spec2Model ----------------------------
(***************************************************************************)
(* Save / reconciliation subsystem of the Excalidraw file editor           *)
(* (ExampleApp component): change detection, debounced persistence,        *)
(* hash-based conflict detection and the file service with its backup      *)
(* ring.  The client is modelled from the component that owns              *)
(* saveInProgressRef (performSave / checkFileUpdates / debouncedSave); the *)
(* page-lifecycle handlers are modelled from the revision that registers   *)
(* them.  The file service (backend) is not part of the sources and is     *)
(* modelled from its documented behaviour.                                 *)
(***************************************************************************)
EXTENDS Integers, Sequences, FiniteSets, TLC

(***************************************************************************)
(* Bounds of the model                                                     *)
(***************************************************************************)
MaxElems == 1
MaxThreads == 2
MaxEdits == 2
MaxExternal == 1
MaxCalls == 2
MaxSnapshot == 2
\* the server alone: requests handled, clock ticks and the length of a tick
MaxRequests == 12
MaxTicks == 4
TickSec == 150

(***************************************************************************)
(* Program constants                                                       *)
(***************************************************************************)
NumBackupSlots == 10
BackupCooldownSec == 300

(***************************************************************************)
(* Elements and snapshots.  A coordinate is held in thousandths, so that   *)
(* toFixed(2) is a real rounding: 0.000 and 0.004 print alike, 0.010 does  *)
(* not.                                                                    *)
(***************************************************************************)
ElemIds == 1..MaxElems
Coords == {0, 4, 10}
\* where the user draws and drops elements while editing
EditCoords == {10}

Element(i, x, d) == [id |-> i, x |-> x, isDeleted |-> d]

\* Number.prototype.toFixed(2) on a non-negative coordinate: hundredths, rounded
toFixed2(x) == (x + 5) \div 10

\* elements.filter((el) => !el.isDeleted); also excalidrawAPI.getSceneElements()
ActiveElements(els) == SelectSeq(els, LAMBDA e : ~e.isDeleted)

\* getSceneElementsIncludingDeleted().filter(el => el.isDeleted).length
DeletedCount(els) == Len(SelectSeq(els, LAMBDA e : e.isDeleted))

\* Array.prototype.sort() on the per-element strings `${el.id}:...`: the id
\* is the leading key of every string and ids are unique
RECURSIVE InsertSorted(_, _)
InsertSorted(k, s) ==
  IF s = <<>> THEN <<k>>
  ELSE IF k[1] <= Head(s)[1] THEN <<k>> \o s
       ELSE <<Head(s)>> \o InsertSorted(k, Tail(s))

RECURSIVE SortKeys(_)
SortKeys(s) == IF s = <<>> THEN <<>> ELSE InsertSorted(Head(s), SortKeys(Tail(s)))

\* a fingerprint that joins the per-element strings in list order
buildElementSummaryUnsorted(elements, deletedCount) ==
  LET activeElements == ActiveElements(elements)
  IN [count |-> Len(activeElements),
      deletedCount |-> deletedCount,
      ids |-> [i \in 1..Len(activeElements) |-> <<activeElements[i].id>>],
      geometry |-> [i \in 1..Len(activeElements) |->
                      <<activeElements[i].id, toFixed2(activeElements[i].x)>>]]

\* buildElementSummary(elements, deletedCount): the JSON string is modelled by
\* the record it serialises
buildElementSummary(elements, deletedCount) ==
  LET activeElements == ActiveElements(elements)
  IN [count |-> Len(activeElements),
      deletedCount |-> deletedCount,
      ids |-> SortKeys([i \in 1..Len(activeElements) |-> <<activeElements[i].id>>]),
      geometry |-> SortKeys([i \in 1..Len(activeElements) |->
                               <<activeElements[i].id, toFixed2(activeElements[i].x)>>])]

\* a string is '' (no character), blanks, text that is not JSON, or the
\* serialisation of a value; lastSavedElementsRef holds '' or a serialised
\* summary
EmptyString == <<>>
BlankString == <<" ", " ">>
CorruptString == <<"c", "o", "r", "r", "u", "p", "t", "e", "d", "-", "j", "s", "o", "n">>
Stringify(summary) == <<summary>>
\* JSON.parse(str) throws
ParseFails(str) == str \in {EmptyString, BlankString, CorruptString}
Parse(str) == str[1]

\* a property that is there with the value undefined
Undefined == "undefined"

\* JSON.stringify of an object leaves out the properties that are undefined
StringifyObject(obj) ==
  Stringify([k \in {j \in DOMAIN obj : obj[j] # Undefined} |-> obj[k]])

(***************************************************************************)
(* localStorage utilities                                                  *)
(***************************************************************************)
ELEMENTS_KEY == "excalidraw-elements"
APP_STATE_KEY == "excalidraw-app-state"
BINARY_FILES_KEY == "excalidraw-binary-files"

\* the values the load functions fall back to: [], null and {}
NoElements == <<>>
Null == [null |-> "null"]
NoFiles == [id \in {} |-> ""]

\* window.localStorage: the keys that are set, each with its string
EmptyStorage == [key \in {} |-> EmptyString]

\* a setItem that leaves an entry that is already there as it is
setItemKeepsFirst(store, key, value, accepted) ==
  IF accepted /\ key \notin DOMAIN store
  THEN [k \in DOMAIN store \cup {key} |-> IF k = key THEN value ELSE store[k]]
  ELSE store

\* localStorage.setItem(key, value) inside try/catch: when the browser
\* refuses the write (quota) the exception is logged and nothing is stored
setItem(store, key, value, accepted) ==
  IF accepted
  THEN [k \in DOMAIN store \cup {key} |-> IF k = key THEN value ELSE store[k]]
  ELSE store

\* localStorage.removeItem(key)
removeItem(store, key) == [k \in DOMAIN store \ {key} |-> store[k]]

\* !localStorage.getItem(key): the key is not set, or set to ''
NoItem(store, key) == key \notin DOMAIN store \/ store[key] = EmptyString

saveElementsToLocalStorage(store, elements, accepted) ==
  setItem(store, ELEMENTS_KEY, Stringify(elements), accepted)

\* the result of a load function whose exception escapes
Thrown == <<"thrown">>

\* a loadElementsFromLocalStorage without its catch
loadElementsFromLocalStorageNoCatch(store) ==
  IF NoItem(store, ELEMENTS_KEY) THEN NoElements
  ELSE IF ParseFails(store[ELEMENTS_KEY]) THEN Thrown
  ELSE Parse(store[ELEMENTS_KEY])

loadElementsFromLocalStorage(store) ==
  IF NoItem(store, ELEMENTS_KEY) THEN NoElements
  ELSE IF ParseFails(store[ELEMENTS_KEY]) THEN NoElements
  ELSE Parse(store[ELEMENTS_KEY])

saveAppStateToLocalStorage(store, appState, accepted) ==
  setItem(store, APP_STATE_KEY, StringifyObject(appState), accepted)

loadAppStateFromLocalStorage(store) ==
  IF NoItem(store, APP_STATE_KEY) THEN Null
  ELSE IF ParseFails(store[APP_STATE_KEY]) THEN Null
  ELSE Parse(store[APP_STATE_KEY])

saveBinaryFilesToLocalStorage(store, files, accepted) ==
  setItem(store, BINARY_FILES_KEY, StringifyObject(files), accepted)

loadBinaryFilesFromLocalStorage(store) ==
  IF NoItem(store, BINARY_FILES_KEY) THEN NoFiles
  ELSE IF ParseFails(store[BINARY_FILES_KEY]) THEN NoFiles
  ELSE Parse(store[BINARY_FILES_KEY])

\* a clear that empties the whole store
clearLocalStorageAll(store) == EmptyStorage

clearLocalStorage(store) ==
  removeItem(removeItem(removeItem(store, ELEMENTS_KEY), APP_STATE_KEY),
             BINARY_FILES_KEY)

(***************************************************************************)
(* Paths, hashes, notifications                                            *)
(***************************************************************************)
\* currentFilePath: null (localStorage mode), a plain .excalidraw file, or a
\* file of the Obsidian convention (.excalidraw.md inside an obsidian folder)
NoPath == "null"
StandardPath == "file.excalidraw"
ObsidianPath == "obsidian/file.excalidraw.md"
Paths == {NoPath, StandardPath, ObsidianPath}

\* a test of the path that finds no file under the Obsidian convention
endsWithExcalidrawMdNever(path) == FALSE

\* currentFilePathValue.endsWith('.excalidraw.md')
endsWithExcalidrawMd(path) == path = ObsidianPath

\* content hash of the bytes of a file: a digest, injective on the contents
\* the model distinguishes; '' is the empty string
NoHash == <<>>
Hash(content) == <<"sha", content>>

NoNotification == [message |-> "null", isError |-> FALSE]
Notification(message, isError) == [message |-> message, isError |-> isError]
MsgSaved == "saved"
MsgLoaded == "latest loaded"
MsgLoadFailed == "latest load failed"
MsgOverwritten == "backed up and overwritten"
MsgLoadedAndSaved == "latest loaded and saved"
MsgSaveFailed == "save failed"
MsgOverwriteFailed == "overwrite failed"

\* initialData.elements (the blank template)
initialDataElements == <<>>

\* contents another process may leave in the file
ExternalContents == {<<Element(1, 10, FALSE)>>}

(***************************************************************************)
(* State                                                                   *)
(***************************************************************************)
VARIABLES
  filePath,                    \* currentFilePath / currentFilePathRef
  loaded,                      \* loadData has resolved initialStatePromiseRef
  scene,                       \* the canvas elements, tombstones included
  lastSavedElements,           \* lastSavedElementsRef
  lastFileHash,                \* lastFileHashRef
  externalUpdateNotifiedHash,  \* externalUpdateNotifiedHashRef
  saveInProgress,              \* saveInProgressRef
  saveTimeoutRef,              \* saveTimeoutRef is non-null
  saveTimers,                  \* pending setTimeout callbacks of debouncedSave
  pendingSave,                 \* pendingSaveRef
  lastCheckTime,               \* lastCheckTimeRef: 0 until the first check
  saveNotification,            \* saveNotification state
  localStorage,                \* window.localStorage
  threads,                     \* running async calls, each a stack of frames
  remote,                      \* the file on disk
  backups,                     \* the backup ring of the file
  clock,                       \* server time, seconds; one editing session
                               \* falls within one cooldown window
  edits,                       \* user edits so far
  externals,                   \* external writes so far
  calls                        \* performSave calls so far

vars == <<filePath, loaded, scene, lastSavedElements, lastFileHash,
          externalUpdateNotifiedHash, saveInProgress, saveTimeoutRef, saveTimers,
          pendingSave, lastCheckTime, saveNotification, localStorage, threads,
          remote, backups, clock, edits, externals, calls>>

clientRefs == <<lastSavedElements, lastFileHash, externalUpdateNotifiedHash>>
timerVars == <<saveTimeoutRef, saveTimers, pendingSave>>
serverVars == <<remote, backups, clock, externals>>

ThreadIds == 1..MaxThreads
SlotIds == 0..(NumBackupSlots - 1)
NoSlot == [used |-> FALSE, content |-> <<>>, mtime |-> 0]
NoFile == [exists |-> FALSE, content |-> <<>>]
File(content) == [exists |-> TRUE, content |-> content]
NoResult == [done |-> FALSE, success |-> FALSE, hash |-> NoHash, backup |-> "none"]

Init ==
  /\ filePath \in Paths
  /\ loaded = FALSE
  /\ scene = <<>>
  /\ lastSavedElements = EmptyString
  /\ lastFileHash = NoHash
  /\ externalUpdateNotifiedHash = NoHash
  /\ saveInProgress = FALSE
  /\ saveTimeoutRef = FALSE
  /\ saveTimers = 0
  /\ pendingSave = FALSE
  /\ lastCheckTime = 0
  /\ saveNotification = NoNotification
  /\ localStorage = EmptyStorage
  /\ threads = [t \in ThreadIds |-> <<>>]
  /\ remote \in {NoFile} \cup {File(c) : c \in ExternalContents}
  /\ backups = [i \in SlotIds |-> NoSlot]
  /\ clock = 1
  /\ edits = 0
  /\ externals = 0
  /\ calls = 0

(***************************************************************************)
(* Change Detector                                                         *)
(***************************************************************************)
\* a detector that compares nothing: every notification of a file counts
isSignificantChangeAlways(elements, allElements) ==
  IF filePath = NoPath THEN TRUE
  ELSE IF ParseFails(lastSavedElements) THEN TRUE
  ELSE LET lastSavedData == Parse(lastSavedElements)
           deletedCount == DeletedCount(allElements)
           activeCount == Len(elements)
       IN IF deletedCount > 0 THEN TRUE
          ELSE IF lastSavedData.count # activeCount THEN TRUE
          ELSE TRUE

\* a detector without the tombstone rule
isSignificantChangeNoTombstones(elements, allElements) ==
  IF filePath = NoPath THEN TRUE
  ELSE IF ParseFails(lastSavedElements) THEN TRUE
  ELSE LET lastSavedData == Parse(lastSavedElements)
           deletedCount == DeletedCount(allElements)
           activeCount == Len(elements)
       IN IF lastSavedData.count # activeCount THEN TRUE
          ELSE Stringify(buildElementSummary(elements, deletedCount)) # lastSavedElements

\* isSignificantChange(elements); allElements is what
\* excalidrawAPI.getSceneElementsIncludingDeleted() returns at the call
isSignificantChange(elements, allElements) ==
  IF filePath = NoPath THEN TRUE
  ELSE IF ParseFails(lastSavedElements) THEN TRUE
  ELSE LET lastSavedData == Parse(lastSavedElements)
           deletedCount == DeletedCount(allElements)
           activeCount == Len(elements)
       IN IF deletedCount > 0 THEN TRUE
          ELSE IF lastSavedData.count # activeCount THEN TRUE
          ELSE Stringify(buildElementSummary(elements, deletedCount)) # lastSavedElements

(***************************************************************************)
(* Async calls.  A thread is the stack of frames of one chain of awaits:   *)
(* a performSave frame, a checkFileUpdates frame, or a performSave frame   *)
(* above the frame that awaits it.                                         *)
(***************************************************************************)
\* who awaits a performSave call, as far as its result is used: the timer
\* callback and forceSave do nothing with it
Discards == "discards"

\* the frame of performSave(elements, appState, files, forceBackup,
\* skipConflictCheck) up to its first await.  latestRemoteHash is left out:
\* it is read only when a successful response carries no hash, and the
\* service always sends one.
SaveFrame(caller, elements, allElements, forceBackup, skipConflictCheck, alreadySaving) ==
  [fn |-> "performSave", pc |-> "info", caller |-> caller,
   elements |-> elements, deletedCount |-> DeletedCount(allElements),
   skipConflictCheck |-> skipConflictCheck, alreadySaving |-> alreadySaving,
   shouldForceBackup |-> forceBackup, conflictOverwrite |-> FALSE,
   result |-> NoResult]

\* the frame of checkFileUpdates() up to its first await
CheckFrame ==
  [fn |-> "checkFileUpdates", pc |-> "info", caller |-> Discards,
   elements |-> <<>>, deletedCount |-> 0,
   skipConflictCheck |-> FALSE, alreadySaving |-> FALSE,
   shouldForceBackup |-> FALSE, conflictOverwrite |-> FALSE,
   result |-> NoResult]

Top(stack) == stack[Len(stack)]
Below(stack) == SubSeq(stack, 1, Len(stack) - 1)
SetTop(stack, frame) == [stack EXCEPT ![Len(stack)] = frame]

FreeThreads == {t \in ThreadIds : threads[t] = <<>>}
\* the lowest free slot: the slots are interchangeable
FreeThread == CHOOSE t \in FreeThreads : \A u \in FreeThreads : t <= u

Running(t, fn, pc) ==
  /\ threads[t] # <<>>
  /\ Top(threads[t]).fn = fn
  /\ Top(threads[t]).pc = pc

\* a finally block that leaves the flag as it is
FinallyOfKeeps(frame, inProgress) == inProgress

\* the finally block of performSave
FinallyOf(frame, inProgress) ==
  IF frame.fn = "performSave" /\ ~frame.alreadySaving THEN FALSE ELSE inProgress

\* what the caller of a returning performSave does with its result
ContinuationOf(frame, saved, note) ==
  CASE frame.caller = "manualSave" -> Notification(MsgSaved, FALSE)
    [] frame.caller = "performSave" ->
         IF saved THEN Notification(MsgLoadedAndSaved, FALSE)
         ELSE Notification(MsgSaveFailed, TRUE)
    [] frame.caller = "checkFileUpdates:obsidian" ->
         IF saved THEN Notification(MsgLoadedAndSaved, FALSE)
         ELSE Notification(MsgSaveFailed, TRUE)
    [] frame.caller = "checkFileUpdates:overwrite" ->
         IF saved THEN Notification(MsgOverwritten, FALSE)
         ELSE Notification(MsgOverwriteFailed, TRUE)
    [] OTHER -> note

\* the top frame returns `saved`; every frame below it was awaiting it and
\* returns false in turn.  Yields the flag and the notification left behind.
RECURSIVE Unwind(_, _, _, _)
Unwind(stack, saved, inProgress, note) ==
  IF stack = <<>> THEN [inProgress |-> inProgress, note |-> note]
  ELSE LET frame == Top(stack)
       IN Unwind(Below(stack), FALSE,
                 FinallyOf(frame, inProgress),
                 IF frame.fn = "performSave"
                 THEN ContinuationOf(frame, saved, note) ELSE note)

\* thread t ends: its top frame returns `saved`, having left `note` on screen
Return(t, saved, note) ==
  LET end == Unwind(threads[t], saved, saveInProgress, note)
  IN /\ threads' = [threads EXCEPT ![t] = <<>>]
     /\ saveInProgress' = end.inProgress
     /\ saveNotification' = end.note

(***************************************************************************)
(* Remote File Service                                                     *)
(***************************************************************************)
\* a test of the target that finds no file under the Obsidian convention
isObsidianTargetNever(path) == FALSE

\* the write target is under the Obsidian path convention
isObsidianTarget(path) == path = ObsidianPath

Max(a, b) == IF a >= b THEN a ELSE b

RECURSIVE LatestFrom(_, _)
LatestFrom(ring, i) ==
  IF i = NumBackupSlots THEN 0
  ELSE Max(IF ring[i].used THEN ring[i].mtime ELSE 0, LatestFrom(ring, i + 1))

\* modification time of the youngest backup slot, 0 when there is none
LatestBackupTime(ring) == LatestFrom(ring, 0)

\* the rotation loop: the first empty slot, else the slot of oldest mtime
RECURSIVE ScanSlots(_, _, _, _)
ScanSlots(ring, i, oldestTime, nextIndex) ==
  IF i = NumBackupSlots THEN nextIndex
  ELSE IF ring[i].used
       THEN IF ring[i].mtime < oldestTime
            THEN ScanSlots(ring, i + 1, ring[i].mtime, i)
            ELSE ScanSlots(ring, i + 1, oldestTime, nextIndex)
       ELSE i

\* a rotation that numbers a new backup after the ones that exist
NextBackupIndexAppends(ring, now) ==
  Cardinality({i \in DOMAIN ring : ring[i].used})

\* a rotation that overwrites slot 00 once the ring is full
NextBackupIndexRestarts(ring, now) ==
  IF \E i \in DOMAIN ring : ~ring[i].used
  THEN CHOOSE i \in DOMAIN ring :
         ~ring[i].used /\ \A j \in DOMAIN ring : ~ring[j].used => i <= j
  ELSE 0

NextBackupIndex(ring, now) == ScanSlots(ring, 0, now + 1, 0)

\* a backup step without cooldown
CreateBackupNoCooldown(ring, file, forceBackup, now) ==
  IF ~file.exists THEN ring
  ELSE [ring EXCEPT ![NextBackupIndex(ring, now)] =
          [used |-> TRUE, content |-> file.content, mtime |-> now]]

\* the backup step of a save: the ring after it
CreateBackup(ring, file, forceBackup, now) ==
  LET latest == LatestBackupTime(ring)
  IN IF ~file.exists THEN ring
     ELSE IF ~forceBackup /\ latest > 0 /\ (now - latest) < BackupCooldownSec THEN ring
     ELSE [ring EXCEPT ![NextBackupIndex(ring, now)] =
             [used |-> TRUE, content |-> file.content, mtime |-> now]]

\* a save that gives up the write when its backup step fails
SaveFileBackupBlocks(path, content, forceBackup, backupWorks) ==
  /\ backups' = IF isObsidianTarget(path) \/ ~backupWorks THEN backups
                ELSE CreateBackup(backups, remote, forceBackup, clock)
  /\ remote' = IF isObsidianTarget(path) \/ backupWorks THEN File(content) ELSE remote

\* POST /api/save-file on the server: backup step, then the write; a failing
\* backup step leaves the ring alone and does not stop the write
SaveFile(path, content, forceBackup, backupWorks) ==
  /\ backups' = IF isObsidianTarget(path) \/ ~backupWorks THEN backups
                ELSE CreateBackup(backups, remote, forceBackup, clock)
  /\ remote' = File(content)

\* what the server log says of the backup step of that request
BackupLog(path, backupWorks) ==
  IF isObsidianTarget(path) THEN "skipped"
  ELSE IF backupWorks THEN "done" ELSE "failed"

\* GET /api/file-info answered from the bytes on disk
FileInfo == [exists |-> remote.exists,
             hash |-> IF remote.exists THEN Hash(remote.content) ELSE NoHash]

\* GET /api/load-file answered from the bytes on disk
LoadFile == [data |-> remote.content, hash |-> Hash(remote.content)]

\* another process rewrites the file
ExternalWrite ==
  /\ loaded
  /\ externals < MaxExternal
  /\ \E c \in ExternalContents :
       /\ remote # File(c)
       /\ remote' = File(c)
  /\ externals' = externals + 1
  /\ UNCHANGED <<filePath, loaded, scene, clientRefs, saveInProgress, timerVars,
                 lastCheckTime, saveNotification, localStorage, threads, backups,
                 clock, edits, calls>>

(***************************************************************************)
(* Client: loading                                                         *)
(***************************************************************************)
\* a load that replaces the scene and leaves SaveState as it was
applyLoadedFileSceneOnly(data, hash) ==
  /\ scene' = data
  /\ UNCHANGED <<lastSavedElements, lastFileHash, externalUpdateNotifiedHash>>

\* applyLoadedFile(fileData, hash): scene and SaveState after it
applyLoadedFile(data, hash) ==
  /\ scene' = data
  /\ lastSavedElements' =
       Stringify(buildElementSummary(ActiveElements(data), DeletedCount(data)))
  /\ lastFileHash' = hash
  /\ externalUpdateNotifiedHash' = hash

\* a loadData that reports a missing file as a failed load
LoadDataNotFoundIsError ==
  /\ ~loaded
  /\ loaded' = TRUE
  /\ IF filePath # NoPath
     THEN \E answered \in BOOLEAN :
            IF remote.exists /\ answered
            THEN /\ scene' = IF Len(LoadFile.data) > 0 THEN LoadFile.data
                             ELSE initialDataElements
                 /\ lastFileHash' = LoadFile.hash
                 /\ externalUpdateNotifiedHash' = LoadFile.hash
                 /\ lastSavedElements' = Stringify(buildElementSummary(LoadFile.data, 0))
            ELSE /\ scene' = initialDataElements
                 /\ lastSavedElements' = Stringify(buildElementSummary(<<>>, 0))
                 /\ lastFileHash' = NoHash
                 /\ externalUpdateNotifiedHash' = NoHash
     ELSE /\ LET savedElements == loadElementsFromLocalStorage(localStorage)
             IN /\ scene' = IF Len(savedElements) > 0 THEN savedElements
                             ELSE initialDataElements
                /\ lastSavedElements' =
                     Stringify(buildElementSummary(savedElements, 0))
          /\ lastFileHash' = NoHash
          /\ externalUpdateNotifiedHash' = NoHash
  /\ saveNotification' = IF filePath # NoPath /\ ~remote.exists
                         THEN Notification(MsgLoadFailed, TRUE) ELSE saveNotification
  /\ UNCHANGED <<filePath, saveInProgress, timerVars, lastCheckTime,
                 localStorage, threads, serverVars, edits, calls>>

\* loadData(): the effect that runs once excalidrawAPI is there
LoadData ==
  /\ ~loaded
  /\ loaded' = TRUE
  /\ IF filePath # NoPath
     THEN \E answered \in BOOLEAN :
            IF remote.exists /\ answered
            THEN /\ scene' = IF Len(LoadFile.data) > 0 THEN LoadFile.data
                             ELSE initialDataElements
                 /\ lastFileHash' = LoadFile.hash
                 /\ externalUpdateNotifiedHash' = LoadFile.hash
                 /\ lastSavedElements' = Stringify(buildElementSummary(LoadFile.data, 0))
            ELSE /\ scene' = initialDataElements
                 /\ lastSavedElements' = Stringify(buildElementSummary(<<>>, 0))
                 /\ lastFileHash' = NoHash
                 /\ externalUpdateNotifiedHash' = NoHash
     ELSE /\ LET savedElements == loadElementsFromLocalStorage(localStorage)
             IN /\ scene' = IF Len(savedElements) > 0 THEN savedElements
                             ELSE initialDataElements
                /\ lastSavedElements' =
                     Stringify(buildElementSummary(savedElements, 0))
          /\ lastFileHash' = NoHash
          /\ externalUpdateNotifiedHash' = NoHash
  /\ UNCHANGED <<filePath, saveInProgress, timerVars, lastCheckTime, saveNotification,
                 localStorage, threads, serverVars, edits, calls>>

(***************************************************************************)
(* Client: performSave                                                     *)
(***************************************************************************)
\* performSave(...) from its call to its first await; without a file it runs
\* to its end.  `below` holds the frames that await it.
performSave(t, below, caller, elements, allElements, forceBackup, skipConflictCheck) ==
  LET frame == SaveFrame(caller, elements, allElements, forceBackup,
                         skipConflictCheck, saveInProgress)
  IN /\ calls < MaxCalls
     /\ calls' = calls + 1
     /\ IF filePath # NoPath
        THEN /\ threads' = [threads EXCEPT ![t] = Append(below, frame)]
             /\ saveInProgress' = TRUE
             /\ UNCHANGED <<localStorage, saveNotification>>
        ELSE LET end == Unwind(Append(below, frame), TRUE, TRUE, saveNotification)
             IN /\ \E accepted \in BOOLEAN :
                     localStorage' = saveElementsToLocalStorage(localStorage, elements,
                                                                accepted)
                /\ saveInProgress' = end.inProgress
                /\ saveNotification' = end.note
                /\ UNCHANGED threads

\* a caller of performSave outside any thread: the slot it will run in
CanCall == filePath = NoPath \/ FreeThreads # {}
CallSlot == IF FreeThreads # {} THEN FreeThread ELSE 1

\* a save decision that sends the request whatever the baseline is
ProceedToSaveAlways(t, frame) ==
  /\ threads' = [threads EXCEPT ![t] = SetTop(@, [frame EXCEPT !.pc = "save"])]
  /\ UNCHANGED <<saveInProgress, saveNotification>>

\* the save decision after the conflict check, and the request if it is made
ProceedToSave(t, frame) ==
  IF \/ frame.deletedCount > 0
     \/ Stringify(buildElementSummary(frame.elements, frame.deletedCount)) # lastSavedElements
     \/ frame.shouldForceBackup
  THEN /\ threads' = [threads EXCEPT ![t] = SetTop(@, [frame EXCEPT !.pc = "save"])]
       /\ UNCHANGED <<saveInProgress, saveNotification>>
  ELSE Return(t, FALSE, saveNotification)

\* an overwrite choice that asks for no backup
OverwriteChoiceNoBackup(frame) == [frame EXCEPT !.conflictOverwrite = TRUE]

\* the user declined the reload: the save goes on as a forced-backup overwrite
OverwriteChoice(frame) ==
  [frame EXCEPT !.shouldForceBackup = TRUE, !.conflictOverwrite = TRUE]

\* a conflict check that takes every existing remote file for a divergent one
PerformSaveFileInfoAlwaysAsks(t) ==
  /\ Running(t, "performSave", "info")
  /\ \E answered \in BOOLEAN, reload \in BOOLEAN :
       LET frame == Top(threads[t])
           exists == answered /\ FileInfo.exists
           remoteHash == FileInfo.hash
           skipConflictDetection == frame.skipConflictCheck \/ frame.alreadySaving
           hasExternalUpdate == exists /\ ~skipConflictDetection
       IN IF hasExternalUpdate
          THEN /\ externalUpdateNotifiedHash' = remoteHash
               /\ IF endsWithExcalidrawMd(filePath)
                  THEN /\ threads' = [threads EXCEPT ![t] =
                                        SetTop(@, [frame EXCEPT !.pc = "obsidianLoad"])]
                       /\ UNCHANGED <<saveInProgress, saveNotification>>
                  ELSE IF reload
                  THEN /\ threads' = [threads EXCEPT ![t] =
                                        SetTop(@, [frame EXCEPT !.pc = "load"])]
                       /\ UNCHANGED <<saveInProgress, saveNotification>>
                  ELSE ProceedToSave(t, OverwriteChoice(frame))
          ELSE /\ ProceedToSave(t, frame)
               /\ UNCHANGED externalUpdateNotifiedHash
  /\ UNCHANGED <<filePath, loaded, scene, lastSavedElements, lastFileHash, timerVars,
                 lastCheckTime, localStorage, serverVars, edits, calls>>

\* performSave resumes with the answer of getFileInfo (null when the request
\* failed); window.confirm blocks, so the user's choice is part of the step
PerformSaveFileInfo(t) ==
  /\ Running(t, "performSave", "info")
  /\ \E answered \in BOOLEAN, reload \in BOOLEAN :
       LET frame == Top(threads[t])
           exists == answered /\ FileInfo.exists
           remoteHash == FileInfo.hash
           skipConflictDetection == frame.skipConflictCheck \/ frame.alreadySaving
           hasExternalUpdate == /\ exists
                                /\ ~skipConflictDetection
                                /\ remoteHash # NoHash
                                /\ remoteHash # lastFileHash
       IN IF hasExternalUpdate
          THEN /\ externalUpdateNotifiedHash' = remoteHash
               /\ IF endsWithExcalidrawMd(filePath)
                  THEN /\ threads' = [threads EXCEPT ![t] =
                                        SetTop(@, [frame EXCEPT !.pc = "obsidianLoad"])]
                       /\ UNCHANGED <<saveInProgress, saveNotification>>
                  ELSE IF reload
                  THEN /\ threads' = [threads EXCEPT ![t] =
                                        SetTop(@, [frame EXCEPT !.pc = "load"])]
                       /\ UNCHANGED <<saveInProgress, saveNotification>>
                  ELSE ProceedToSave(t, OverwriteChoice(frame))
          ELSE /\ ProceedToSave(t, frame)
               /\ UNCHANGED externalUpdateNotifiedHash
  /\ UNCHANGED <<filePath, loaded, scene, lastSavedElements, lastFileHash, timerVars,
                 lastCheckTime, localStorage, serverVars, edits, calls>>

\* the server handles the save-file request of thread t, or the request fails
ServerSaveFile(t) ==
  /\ Running(t, "performSave", "save")
  /\ LET frame == Top(threads[t])
     IN \E outcome \in {"saved", "rejected", "unreachable"}, backupWorks \in BOOLEAN :
          /\ IF outcome = "saved"
             THEN /\ SaveFile(filePath, frame.elements, frame.shouldForceBackup, backupWorks)
                  /\ threads' = [threads EXCEPT ![t] = SetTop(@,
                       [frame EXCEPT !.pc = "response",
                                     !.result = [done |-> TRUE, success |-> TRUE,
                                                 hash |-> Hash(frame.elements),
                                                 backup |-> BackupLog(filePath, backupWorks)]])]
             ELSE /\ UNCHANGED <<remote, backups>>
                  /\ threads' = [threads EXCEPT ![t] = SetTop(@,
                       [frame EXCEPT !.pc = "response",
                                     !.result = [done |-> TRUE, success |-> FALSE,
                                                 hash |-> NoHash, backup |-> "none"]])]
  /\ UNCHANGED <<filePath, loaded, scene, clientRefs, saveInProgress, timerVars,
                 lastCheckTime, saveNotification, localStorage, clock, edits, externals, calls>>

\* a response handler that records the new hash and leaves the marker of the
\* surfaced hash as it was
PerformSaveResponseKeepsMarker(t) ==
  /\ Running(t, "performSave", "response")
  /\ LET frame == Top(threads[t])
         saveResult == frame.result
     IN IF saveResult.success
        THEN /\ lastSavedElements' =
                  Stringify(buildElementSummary(frame.elements, frame.deletedCount))
             /\ lastFileHash' = saveResult.hash
             /\ UNCHANGED externalUpdateNotifiedHash
             /\ Return(t, TRUE, IF frame.conflictOverwrite
                                THEN Notification(MsgOverwritten, FALSE)
                                ELSE saveNotification)
        ELSE /\ UNCHANGED clientRefs
             /\ Return(t, FALSE, Notification(MsgSaveFailed, TRUE))
  /\ UNCHANGED <<filePath, loaded, scene, timerVars, lastCheckTime, localStorage,
                 serverVars, edits, calls>>

\* performSave resumes with the result of saveExcalidrawFile
PerformSaveResponse(t) ==
  /\ Running(t, "performSave", "response")
  /\ LET frame == Top(threads[t])
         saveResult == frame.result
         resolvedHash == saveResult.hash
     IN IF saveResult.success
        THEN /\ lastSavedElements' =
                  Stringify(buildElementSummary(frame.elements, frame.deletedCount))
             /\ IF resolvedHash # NoHash
                THEN /\ lastFileHash' = resolvedHash
                     /\ externalUpdateNotifiedHash' = resolvedHash
                ELSE UNCHANGED <<lastFileHash, externalUpdateNotifiedHash>>
             /\ Return(t, TRUE, IF frame.conflictOverwrite
                                THEN Notification(MsgOverwritten, FALSE)
                                ELSE saveNotification)
        ELSE /\ UNCHANGED clientRefs
             /\ Return(t, FALSE, Notification(MsgSaveFailed, TRUE))
  /\ UNCHANGED <<filePath, loaded, scene, timerVars, lastCheckTime, localStorage,
                 serverVars, edits, calls>>

\* performSave resumes, after the user chose to reload, with the result of
\* loadExcalidrawFile (null when the file is gone or the request failed)
PerformSaveReload(t) ==
  /\ Running(t, "performSave", "load")
  /\ \E answered \in BOOLEAN :
       IF remote.exists /\ answered
       THEN /\ applyLoadedFile(LoadFile.data, LoadFile.hash)
            /\ Return(t, FALSE, Notification(MsgLoaded, FALSE))
       ELSE /\ UNCHANGED <<scene, clientRefs>>
            /\ Return(t, FALSE, Notification(MsgLoadFailed, TRUE))
  /\ UNCHANGED <<filePath, loaded, timerVars, lastCheckTime, localStorage,
                 serverVars, edits, calls>>

\* the Obsidian branch of performSave resumes with the result of
\* loadExcalidrawFile: apply it and save again, without conflict check
PerformSaveObsidianLoad(t) ==
  /\ Running(t, "performSave", "obsidianLoad")
  /\ \E answered \in BOOLEAN :
       IF remote.exists /\ answered
       THEN /\ applyLoadedFile(LoadFile.data, LoadFile.hash)
            /\ performSave(t, SetTop(threads[t], [Top(threads[t]) EXCEPT !.pc = "nested"]),
                           "performSave", ActiveElements(LoadFile.data), LoadFile.data,
                           TRUE, TRUE)
       ELSE /\ UNCHANGED <<scene, clientRefs, localStorage, calls>>
            /\ Return(t, FALSE, Notification(MsgLoadFailed, TRUE))
  /\ UNCHANGED <<filePath, loaded, timerVars, lastCheckTime, serverVars, edits>>

(***************************************************************************)
(* Client: checkFileUpdates                                                *)
(***************************************************************************)
\* checkFileUpdates() from its call to its first await: the two early
\* returns, then the getFileInfo request
checkFileUpdates ==
  IF filePath = NoPath \/ saveInProgress
  THEN UNCHANGED threads
  ELSE /\ FreeThreads # {}
       /\ threads' = [threads EXCEPT ![FreeThread] = <<CheckFrame>>]

\* a poll that puts an error on screen when getFileInfo has no answer
CheckFileInfoFailureNotifies(t) ==
  /\ Running(t, "checkFileUpdates", "info")
  /\ \E answered \in BOOLEAN, shouldReload \in BOOLEAN :
       LET frame == Top(threads[t])
           exists == answered /\ FileInfo.exists
           remoteHash == FileInfo.hash
           hasNewerVersion == remoteHash # NoHash /\ remoteHash # lastFileHash
           alreadyNotified == remoteHash = externalUpdateNotifiedHash
       IN IF exists /\ hasNewerVersion /\ ~alreadyNotified
          THEN /\ externalUpdateNotifiedHash' = remoteHash
               /\ IF endsWithExcalidrawMd(filePath)
                  THEN /\ threads' = [threads EXCEPT ![t] =
                                        SetTop(@, [frame EXCEPT !.pc = "obsidianLoad"])]
                       /\ UNCHANGED <<saveInProgress, saveNotification, localStorage, calls>>
                  ELSE IF shouldReload
                  THEN /\ threads' = [threads EXCEPT ![t] =
                                        SetTop(@, [frame EXCEPT !.pc = "load"])]
                       /\ UNCHANGED <<saveInProgress, saveNotification, localStorage, calls>>
                  ELSE /\ performSave(t, SetTop(threads[t], [frame EXCEPT !.pc = "nested"]),
                                      "checkFileUpdates:overwrite", ActiveElements(scene),
                                      scene, TRUE, TRUE)
          ELSE /\ Return(t, FALSE, IF answered THEN saveNotification
                                   ELSE Notification(MsgLoadFailed, TRUE))
               /\ UNCHANGED <<externalUpdateNotifiedHash, localStorage, calls>>
  /\ UNCHANGED <<filePath, loaded, scene, lastSavedElements, lastFileHash, timerVars,
                 lastCheckTime, serverVars, edits>>

\* a poll that saves the canvas whenever it finds nothing to resolve
CheckFileInfoSavesAnyway(t) ==
  /\ Running(t, "checkFileUpdates", "info")
  /\ \E answered \in BOOLEAN, shouldReload \in BOOLEAN :
       LET frame == Top(threads[t])
           exists == answered /\ FileInfo.exists
           remoteHash == FileInfo.hash
           hasNewerVersion == remoteHash # NoHash /\ remoteHash # lastFileHash
           alreadyNotified == remoteHash = externalUpdateNotifiedHash
       IN IF exists /\ hasNewerVersion /\ ~alreadyNotified
          THEN /\ externalUpdateNotifiedHash' = remoteHash
               /\ IF endsWithExcalidrawMd(filePath)
                  THEN /\ threads' = [threads EXCEPT ![t] =
                                        SetTop(@, [frame EXCEPT !.pc = "obsidianLoad"])]
                       /\ UNCHANGED <<saveInProgress, saveNotification, localStorage, calls>>
                  ELSE IF shouldReload
                  THEN /\ threads' = [threads EXCEPT ![t] =
                                        SetTop(@, [frame EXCEPT !.pc = "load"])]
                       /\ UNCHANGED <<saveInProgress, saveNotification, localStorage, calls>>
                  ELSE /\ performSave(t, SetTop(threads[t], [frame EXCEPT !.pc = "nested"]),
                                      "checkFileUpdates:overwrite", ActiveElements(scene),
                                      scene, TRUE, TRUE)
          ELSE /\ performSave(t, SetTop(threads[t], [frame EXCEPT !.pc = "nested"]),
                              "checkFileUpdates:overwrite", ActiveElements(scene),
                              scene, TRUE, TRUE)
               /\ UNCHANGED externalUpdateNotifiedHash
  /\ UNCHANGED <<filePath, loaded, scene, lastSavedElements, lastFileHash, timerVars,
                 lastCheckTime, serverVars, edits>>

\* checkFileUpdates resumes with the answer of getFileInfo
CheckFileInfo(t) ==
  /\ Running(t, "checkFileUpdates", "info")
  /\ \E answered \in BOOLEAN, shouldReload \in BOOLEAN :
       LET frame == Top(threads[t])
           exists == answered /\ FileInfo.exists
           remoteHash == FileInfo.hash
           hasNewerVersion == remoteHash # NoHash /\ remoteHash # lastFileHash
           alreadyNotified == remoteHash = externalUpdateNotifiedHash
       IN IF exists /\ hasNewerVersion /\ ~alreadyNotified
          THEN /\ externalUpdateNotifiedHash' = remoteHash
               /\ IF endsWithExcalidrawMd(filePath)
                  THEN /\ threads' = [threads EXCEPT ![t] =
                                        SetTop(@, [frame EXCEPT !.pc = "obsidianLoad"])]
                       /\ UNCHANGED <<saveInProgress, saveNotification, localStorage, calls>>
                  ELSE IF shouldReload
                  THEN /\ threads' = [threads EXCEPT ![t] =
                                        SetTop(@, [frame EXCEPT !.pc = "load"])]
                       /\ UNCHANGED <<saveInProgress, saveNotification, localStorage, calls>>
                  ELSE /\ performSave(t, SetTop(threads[t], [frame EXCEPT !.pc = "nested"]),
                                      "checkFileUpdates:overwrite", ActiveElements(scene),
                                      scene, TRUE, TRUE)
          ELSE /\ Return(t, FALSE, saveNotification)
               /\ UNCHANGED <<externalUpdateNotifiedHash, localStorage, calls>>
  /\ UNCHANGED <<filePath, loaded, scene, lastSavedElements, lastFileHash, timerVars,
                 lastCheckTime, serverVars, edits>>

\* checkFileUpdates resumes, after the user chose to reload, with the result
\* of loadExcalidrawFile
CheckReload(t) ==
  /\ Running(t, "checkFileUpdates", "load")
  /\ \E answered \in BOOLEAN :
       IF remote.exists /\ answered
       THEN /\ applyLoadedFile(LoadFile.data, LoadFile.hash)
            /\ Return(t, FALSE, Notification(MsgLoaded, FALSE))
       ELSE /\ UNCHANGED <<scene, clientRefs>>
            /\ Return(t, FALSE, Notification(MsgLoadFailed, TRUE))
  /\ UNCHANGED <<filePath, loaded, timerVars, lastCheckTime, localStorage,
                 serverVars, edits, calls>>

\* the Obsidian branch of checkFileUpdates resumes with the result of
\* loadExcalidrawFile
CheckObsidianLoad(t) ==
  /\ Running(t, "checkFileUpdates", "obsidianLoad")
  /\ \E answered \in BOOLEAN :
       IF remote.exists /\ answered
       THEN /\ applyLoadedFile(LoadFile.data, LoadFile.hash)
            /\ performSave(t, SetTop(threads[t], [Top(threads[t]) EXCEPT !.pc = "nested"]),
                           "checkFileUpdates:obsidian", ActiveElements(LoadFile.data),
                           LoadFile.data, TRUE, TRUE)
       ELSE /\ UNCHANGED <<scene, clientRefs, localStorage, calls>>
            /\ Return(t, FALSE, Notification(MsgLoadFailed, TRUE))
  /\ UNCHANGED <<filePath, loaded, timerVars, lastCheckTime, serverVars, edits>>

(***************************************************************************)
(* Client: Persistence Scheduler                                           *)
(***************************************************************************)
\* a scheduler that arms a timer for every qualifying change
ScheduleSaveAlways ==
  /\ pendingSave' = TRUE
  /\ saveTimeoutRef' = TRUE
  /\ saveTimers' = saveTimers + 1

\* the tail of debouncedSave: coalesce into the pending timer, or arm one
ScheduleSave ==
  /\ pendingSave' = TRUE
  /\ IF saveTimeoutRef
     THEN UNCHANGED <<saveTimeoutRef, saveTimers>>
     ELSE /\ saveTimeoutRef' = TRUE
          /\ saveTimers' = saveTimers + 1

\* debouncedSave(elements, appState, files), called from onChange; allElements
\* is the scene at the call.  The 5 s throttle of the update check is an
\* input: the check is due on the first call and whenever enough time passed.
debouncedSave(elements, allElements) ==
  IF ~isSignificantChange(elements, allElements)
  THEN UNCHANGED <<timerVars, lastCheckTime, threads>>
  ELSE /\ \E due \in BOOLEAN :
            /\ (lastCheckTime = 0) => due
            /\ IF due
               THEN /\ lastCheckTime' = 1
                    /\ checkFileUpdates
               ELSE UNCHANGED <<lastCheckTime, threads>>
       /\ ScheduleSave

UnusedIds(els) == {i \in ElemIds : \A k \in 1..Len(els) : els[k].id # i}

\* the scenes one user edit away: draw an element, move one, delete one
EditsOf(els) ==
  {Append(els, Element(i, x, FALSE)) : i \in UnusedIds(els), x \in EditCoords}
  \cup {[els EXCEPT ![k].x = x] : k \in {j \in 1..Len(els) : ~els[j].isDeleted},
                                  x \in EditCoords}
  \cup {[els EXCEPT ![k].isDeleted = TRUE] : k \in {j \in 1..Len(els) : ~els[j].isDeleted}}

\* the user edits the drawing; the canvas reports it through onChange
UserEdit ==
  /\ loaded
  /\ edits < MaxEdits
  /\ \E sc \in EditsOf(scene) :
       /\ sc # scene
       /\ scene' = sc
       /\ debouncedSave(ActiveElements(sc), sc)
  /\ edits' = edits + 1
  /\ UNCHANGED <<filePath, loaded, clientRefs, saveInProgress, saveNotification,
                 localStorage, serverVars, calls>>

\* the canvas reports a change that leaves the elements as they are (pointer
\* move, selection, a scene update just applied)
ChangeNotification ==
  /\ loaded
  /\ debouncedSave(ActiveElements(scene), scene)
  /\ UNCHANGED <<filePath, loaded, scene, clientRefs, saveInProgress, saveNotification,
                 localStorage, serverVars, edits, calls>>

\* a timer callback that saves without looking at the canvas again
TimerFiresNoRecheck ==
  /\ saveTimers > 0
  /\ saveTimers' = saveTimers - 1
  /\ saveTimeoutRef' = FALSE
  /\ pendingSave' = FALSE
  /\ CanCall
  /\ performSave(CallSlot, <<>>, Discards, ActiveElements(scene), scene,
                 FALSE, FALSE)
  /\ UNCHANGED <<filePath, loaded, scene, clientRefs, lastCheckTime, serverVars, edits>>

\* a timer callback that leaves the handle of its own timer in saveTimeoutRef
TimerFiresKeepsHandle ==
  /\ saveTimers > 0
  /\ saveTimers' = saveTimers - 1
  /\ saveTimeoutRef' = saveTimeoutRef
  /\ pendingSave' = FALSE
  /\ LET currentElements == ActiveElements(scene)
     IN IF ~isSignificantChange(currentElements, scene)
        THEN /\ UNCHANGED <<threads, saveInProgress, localStorage, saveNotification, calls>>
        ELSE /\ CanCall
             /\ performSave(CallSlot, <<>>, Discards, currentElements, scene,
                            FALSE, FALSE)
  /\ UNCHANGED <<filePath, loaded, scene, clientRefs, lastCheckTime, serverVars, edits>>

\* the setTimeout callback of debouncedSave
TimerFires ==
  /\ saveTimers > 0
  /\ saveTimers' = saveTimers - 1
  /\ saveTimeoutRef' = FALSE
  /\ pendingSave' = FALSE
  /\ LET currentElements == ActiveElements(scene)
     IN IF ~isSignificantChange(currentElements, scene)
        THEN /\ UNCHANGED <<threads, saveInProgress, localStorage, saveNotification, calls>>
        ELSE /\ CanCall
             /\ performSave(CallSlot, <<>>, Discards, currentElements, scene,
                            FALSE, FALSE)
  /\ UNCHANGED <<filePath, loaded, scene, clientRefs, lastCheckTime, serverVars, edits>>

\* forceSave(elements, appState, files)
forceSave ==
  /\ CanCall
  /\ performSave(CallSlot, <<>>, Discards, ActiveElements(scene), scene,
                 FALSE, FALSE)

\* manualSave(elements, appState, files), from the save button or shortcut
ManualSave ==
  /\ loaded
  /\ CanCall
  /\ performSave(CallSlot, <<>>, "manualSave", ActiveElements(scene), scene,
                 TRUE, FALSE)
  /\ UNCHANGED <<filePath, loaded, scene, clientRefs, timerVars, lastCheckTime,
                 serverVars, edits>>

\* handleBeforeUnload: drop the pending timer, then forceSave
HandleBeforeUnload ==
  /\ loaded
  /\ IF saveTimeoutRef
     THEN /\ saveTimers' = saveTimers - 1
          /\ saveTimeoutRef' = FALSE
          /\ pendingSave' = FALSE
     ELSE UNCHANGED timerVars
  /\ forceSave
  /\ UNCHANGED <<filePath, loaded, scene, clientRefs, lastCheckTime, serverVars, edits>>

\* handleUnload
HandleUnload ==
  /\ loaded
  /\ forceSave
  /\ UNCHANGED <<filePath, loaded, scene, clientRefs, timerVars, lastCheckTime,
                 serverVars, edits>>

\* handleVisibilityChange with document.visibilityState === 'hidden'
HandleVisibilityChange ==
  /\ loaded
  /\ forceSave
  /\ UNCHANGED <<filePath, loaded, scene, clientRefs, timerVars, lastCheckTime,
                 serverVars, edits>>

\* handlePageHide
HandlePageHide ==
  /\ loaded
  /\ forceSave
  /\ UNCHANGED <<filePath, loaded, scene, clientRefs, timerVars, lastCheckTime,
                 serverVars, edits>>

\* the 2 s timeout of showSaveNotification
ClearNotification ==
  /\ saveNotification # NoNotification
  /\ saveNotification' = NoNotification
  /\ UNCHANGED <<filePath, loaded, scene, clientRefs, saveInProgress, timerVars,
                 lastCheckTime, localStorage, threads, serverVars, edits, calls>>

(***************************************************************************)
(* Specification                                                           *)
(***************************************************************************)
Next ==
  \/ LoadData
  \/ UserEdit
  \/ ChangeNotification
  \/ TimerFires
  \/ ManualSave
  \/ HandleBeforeUnload
  \/ HandleUnload
  \/ HandleVisibilityChange
  \/ HandlePageHide
  \/ ClearNotification
  \/ ExternalWrite
  \/ \E t \in ThreadIds : PerformSaveFileInfo(t)
  \/ \E t \in ThreadIds : ServerSaveFile(t)
  \/ \E t \in ThreadIds : PerformSaveResponse(t)
  \/ \E t \in ThreadIds : PerformSaveReload(t)
  \/ \E t \in ThreadIds : PerformSaveObsidianLoad(t)
  \/ \E t \in ThreadIds : CheckFileInfo(t)
  \/ \E t \in ThreadIds : CheckReload(t)
  \/ \E t \in ThreadIds : CheckObsidianLoad(t)

Spec == Init /\ [][Next]_vars

\* the call running in thread t resumes: its request is answered
Resumes(t) ==
  \/ PerformSaveFileInfo(t)
  \/ ServerSaveFile(t)
  \/ PerformSaveResponse(t)
  \/ PerformSaveReload(t)
  \/ PerformSaveObsidianLoad(t)
  \/ CheckFileInfo(t)
  \/ CheckReload(t)
  \/ CheckObsidianLoad(t)

\* the same program where the initial load ends, every armed timer fires and
\* every request is answered in the end; the user and other programs act
\* when they please.  A timer fires whatever else is running, so its
\* fairness is strong: polls that come and go do not hold it back for ever.
SpecLive ==
  /\ Init
  /\ [][Next]_vars
  /\ WF_vars(LoadData)
  /\ SF_vars(TimerFires)
  /\ WF_vars(ClearNotification)
  /\ \A t \in ThreadIds : WF_vars(Resumes(t))

(***************************************************************************)
(* The Change Detector on its own: the snapshot and the baseline are drawn *)
(* from the snapshots of up to MaxSnapshot elements, and the canvas        *)
(* reports the snapshot.                                                   *)
(***************************************************************************)
SnapshotElements ==
  {Element(i, x, d) : i \in 1..MaxSnapshot, x \in Coords, d \in BOOLEAN}

DistinctIds(els) == \A j, k \in 1..Len(els) : j # k => els[j].id # els[k].id

Snapshots ==
  {els \in UNION {[1..n -> SnapshotElements] : n \in 0..MaxSnapshot} : DistinctIds(els)}

\* the fingerprint performSave and applyLoadedFile store for a scene
Fingerprint(els) ==
  Stringify(buildElementSummary(ActiveElements(els), DeletedCount(els)))

\* the baselines a load or a save of some snapshot leaves behind
Baselines ==
  {Fingerprint(els) : els \in Snapshots}
  \cup {Stringify(buildElementSummary(els, 0)) : els \in Snapshots}

InitDetector ==
  /\ filePath \in Paths
  /\ loaded = TRUE
  /\ scene \in Snapshots
  /\ lastSavedElements \in Baselines
  /\ lastFileHash = NoHash
  /\ externalUpdateNotifiedHash = NoHash
  /\ saveInProgress = FALSE
  /\ saveTimeoutRef = FALSE
  /\ saveTimers = 0
  /\ pendingSave = FALSE
  /\ lastCheckTime = 0
  /\ saveNotification = NoNotification
  /\ localStorage = EmptyStorage
  /\ threads = [t \in ThreadIds |-> <<>>]
  /\ remote = NoFile
  /\ backups = [i \in SlotIds |-> NoSlot]
  /\ clock = 1
  /\ edits = 0
  /\ externals = 0
  /\ calls = 0

NextDetector == ChangeNotification

SpecDetector == InitDetector /\ [][NextDetector]_vars

(***************************************************************************)
(* The Remote File Service alone: save requests of any content and flag,   *)
(* with time passing between them                                          *)
(***************************************************************************)
\* the contents the requests carry
ServerContents == {<<Element(1, 10, FALSE)>>}

InitServer ==
  /\ filePath \in {StandardPath, ObsidianPath}
  /\ loaded = TRUE
  /\ scene = <<>>
  /\ lastSavedElements = EmptyString
  /\ lastFileHash = NoHash
  /\ externalUpdateNotifiedHash = NoHash
  /\ saveInProgress = FALSE
  /\ saveTimeoutRef = FALSE
  /\ saveTimers = 0
  /\ pendingSave = FALSE
  /\ lastCheckTime = 0
  /\ saveNotification = NoNotification
  /\ localStorage = EmptyStorage
  /\ threads = [t \in ThreadIds |-> <<>>]
  /\ remote \in {NoFile, File(<<>>)}
  /\ backups = [i \in SlotIds |-> NoSlot]
  /\ clock = 1
  /\ edits = 0
  /\ externals = 0
  /\ calls = 0

\* a save-file request is sent: { filepath, data, force_backup }; the client
\* sends the next one once the previous one was answered
RequestArrives ==
  /\ calls < MaxRequests
  /\ threads[1] = <<>> \/ Running(1, "performSave", "response")
  /\ \E content \in ServerContents, forceBackup \in BOOLEAN :
       threads' = [threads EXCEPT ![1] =
                     <<[SaveFrame(Discards, content, content, forceBackup, TRUE, FALSE)
                          EXCEPT !.pc = "save"]>>]
  /\ calls' = calls + 1
  /\ UNCHANGED <<filePath, loaded, scene, clientRefs, saveInProgress, timerVars,
                 lastCheckTime, saveNotification, localStorage, serverVars, edits>>

\* time passes on the server
Tick ==
  /\ clock < 1 + MaxTicks * TickSec
  /\ clock' = clock + TickSec
  /\ UNCHANGED <<filePath, loaded, scene, clientRefs, saveInProgress, timerVars,
                 lastCheckTime, saveNotification, localStorage, threads, remote,
                 backups, edits, externals, calls>>

NextServer ==
  \/ RequestArrives
  \/ ServerSaveFile(1)
  \/ Tick

SpecServer == InitServer /\ [][NextServer]_vars

(***************************************************************************)
(* The localStorage utilities alone: saves, loads and clears in any order, *)
(* and other code writing strings of its own into the store                *)
(***************************************************************************)
OTHER_KEY == "other-data"
StorageKeys == {ELEMENTS_KEY, APP_STATE_KEY, BINARY_FILES_KEY, OTHER_KEY}

\* the values that are saved
SavedElements == {els \in Snapshots : Len(els) <= 1}
AppStates ==
  {[viewBackgroundColor |-> c, currentItemFillStyle |-> f] :
     c \in {"#ffffff", Undefined}, f \in {"solid", Undefined}}
BinaryFilesValues == {NoFiles, [id \in {"file-1"} |-> "data:image/png;base64"]}

\* the strings other code leaves under a key
RawStrings == {EmptyString, BlankString, CorruptString}

InitStorage ==
  /\ filePath = NoPath
  /\ loaded = TRUE
  /\ scene = <<>>
  /\ lastSavedElements = EmptyString
  /\ lastFileHash = NoHash
  /\ externalUpdateNotifiedHash = NoHash
  /\ saveInProgress = FALSE
  /\ saveTimeoutRef = FALSE
  /\ saveTimers = 0
  /\ pendingSave = FALSE
  /\ lastCheckTime = 0
  /\ saveNotification = NoNotification
  /\ localStorage = EmptyStorage
  /\ threads = [t \in ThreadIds |-> <<>>]
  /\ remote = NoFile
  /\ backups = [i \in SlotIds |-> NoSlot]
  /\ clock = 1
  /\ edits = 0
  /\ externals = 0
  /\ calls = 0

StoreElements ==
  /\ \E elements \in SavedElements, accepted \in BOOLEAN :
       localStorage' = saveElementsToLocalStorage(localStorage, elements, accepted)
  /\ UNCHANGED <<filePath, loaded, scene, clientRefs, saveInProgress, timerVars,
                 lastCheckTime, saveNotification, threads, serverVars, edits, calls>>

StoreAppState ==
  /\ \E appState \in AppStates, accepted \in BOOLEAN :
       localStorage' = saveAppStateToLocalStorage(localStorage, appState, accepted)
  /\ UNCHANGED <<filePath, loaded, scene, clientRefs, saveInProgress, timerVars,
                 lastCheckTime, saveNotification, threads, serverVars, edits, calls>>

StoreBinaryFiles ==
  /\ \E files \in BinaryFilesValues, accepted \in BOOLEAN :
       localStorage' = saveBinaryFilesToLocalStorage(localStorage, files, accepted)
  /\ UNCHANGED <<filePath, loaded, scene, clientRefs, saveInProgress, timerVars,
                 lastCheckTime, saveNotification, threads, serverVars, edits, calls>>

\* the elements are read back, as loadData does for the canvas
LoadElements ==
  /\ scene' = loadElementsFromLocalStorage(localStorage)
  /\ UNCHANGED <<filePath, loaded, clientRefs, saveInProgress, timerVars,
                 lastCheckTime, saveNotification, localStorage, threads, serverVars,
                 edits, calls>>

ClearStorage ==
  /\ localStorage' = clearLocalStorage(localStorage)
  /\ UNCHANGED <<filePath, loaded, scene, clientRefs, saveInProgress, timerVars,
                 lastCheckTime, saveNotification, threads, serverVars, edits, calls>>

\* other code sets a key to a string of its own
ForeignWrite ==
  /\ \E key \in StorageKeys, str \in RawStrings :
       localStorage' = setItem(localStorage, key, str, TRUE)
  /\ UNCHANGED <<filePath, loaded, scene, clientRefs, saveInProgress, timerVars,
                 lastCheckTime, saveNotification, threads, serverVars, edits, calls>>

NextStorage ==
  \/ StoreElements
  \/ StoreAppState
  \/ StoreBinaryFiles
  \/ LoadElements
  \/ ClearStorage
  \/ ForeignWrite

SpecStorage == InitStorage /\ [][NextStorage]_vars

(***************************************************************************)
(* The load handler alone: the bytes of the file on disk, GET              *)
(* /api/load-file over them, and loadExcalidrawFile reading the response   *)
(***************************************************************************)
\* the bytes a file may hold: none, blanks, text that is not JSON, or a
\* serialised drawing
DiskContents == RawStrings \cup {Stringify(els) : els \in Snapshots}

\* a drawing without elements
DefaultSnapshot == <<>>

\* handler (load): fs.readFile, JSON.parse, res.status(200).json(data); the
\* catch answers 404 for ENOENT and 500 for every other exception
handler(file) ==
  IF ~file.exists
  THEN [status |-> 404, error |-> "File not found", body |-> <<>>]
  ELSE IF ParseFails(file.content)
  THEN [status |-> 500, error |-> "Failed to load file", body |-> <<>>]
  ELSE [status |-> 200, error |-> "", body |-> Parse(file.content)]

\* loadExcalidrawFile: null for 404 and, through its catch, for every
\* response that is not ok
loadExcalidrawFile(response) ==
  IF response.status = 404 THEN Null
  ELSE IF response.status # 200 THEN Null
  ELSE [data |-> response.body]

LoadFrame(file, pc, result) ==
  [fn |-> "loadExcalidrawFile", pc |-> pc, file |-> file,
   response |-> handler(file), result |-> result]

InitLoad ==
  /\ filePath = StandardPath
  /\ loaded = FALSE
  /\ scene = <<>>
  /\ lastSavedElements = EmptyString
  /\ lastFileHash = NoHash
  /\ externalUpdateNotifiedHash = NoHash
  /\ saveInProgress = FALSE
  /\ saveTimeoutRef = FALSE
  /\ saveTimers = 0
  /\ pendingSave = FALSE
  /\ lastCheckTime = 0
  /\ saveNotification = NoNotification
  /\ localStorage = EmptyStorage
  /\ threads = [t \in ThreadIds |-> <<>>]
  /\ remote \in {NoFile} \cup {File(bytes) : bytes \in DiskContents}
  /\ backups = [i \in SlotIds |-> NoSlot]
  /\ clock = 1
  /\ edits = 0
  /\ externals = 0
  /\ calls = 0

\* another program leaves other bytes in the file
DiskWrite ==
  /\ externals < MaxExternal
  /\ \E bytes \in RawStrings \cup {Stringify(c) : c \in ExternalContents} :
       /\ remote # File(bytes)
       /\ remote' = File(bytes)
  /\ externals' = externals + 1
  /\ UNCHANGED <<filePath, loaded, scene, clientRefs, saveInProgress, timerVars,
                 lastCheckTime, saveNotification, localStorage, threads, backups,
                 clock, edits, calls>>

\* the fetch of loadExcalidrawFile reaches the handler, which reads the file
LoadRequest ==
  /\ threads[1] = <<>>
  /\ threads' = [threads EXCEPT ![1] = <<LoadFrame(remote, "response", Null)>>]
  /\ UNCHANGED <<filePath, loaded, scene, clientRefs, saveInProgress, timerVars,
                 lastCheckTime, saveNotification, localStorage, serverVars, edits,
                 calls>>

\* the response is back and loadExcalidrawFile returns
LoadResponse ==
  /\ threads[1] # <<>>
  /\ Top(threads[1]).pc = "response"
  /\ threads' = [threads EXCEPT ![1] =
       <<LoadFrame(Top(threads[1]).file, "returned",
                   loadExcalidrawFile(Top(threads[1]).response))>>]
  /\ UNCHANGED <<filePath, loaded, scene, clientRefs, saveInProgress, timerVars,
                 lastCheckTime, saveNotification, localStorage, serverVars, edits,
                 calls>>

\* the caller has its result
LoadReturns ==
  /\ threads[1] # <<>>
  /\ Top(threads[1]).pc = "returned"
  /\ threads' = [threads EXCEPT ![1] = <<>>]
  /\ UNCHANGED <<filePath, loaded, scene, clientRefs, saveInProgress, timerVars,
                 lastCheckTime, saveNotification, localStorage, serverVars, edits,
                 calls>>

NextLoad ==
  \/ DiskWrite
  \/ LoadRequest
  \/ LoadResponse
  \/ LoadReturns

SpecLoad == InitLoad /\ [][NextLoad]_vars

(***************************************************************************)
(* Properties                                                              *)
(***************************************************************************)
TopIs(th, t, fn, pc) ==
  /\ th[t] # <<>>
  /\ Top(th[t]).fn = fn
  /\ Top(th[t]).pc = pc

\* thread t has a save-file request on the wire, or its response
RequestInFlight(t) ==
  \/ TopIs(threads, t, "performSave", "save")
  \/ TopIs(threads, t, "performSave", "response")

\* the step in which thread t sends its save-file request
SendsSave(t) ==
  /\ TopIs(threads, t, "performSave", "info")
  /\ TopIs(threads', t, "performSave", "save")

\* the step in which the server handles the save-file request of thread t
Handled(t) ==
  /\ TopIs(threads, t, "performSave", "save")
  /\ TopIs(threads', t, "performSave", "response")

\* the step in which the performSave of thread t ends on a failed response
FailedSaveEnds(t) ==
  /\ TopIs(threads, t, "performSave", "response")
  /\ ~Top(threads[t]).result.success
  /\ threads'[t] = <<>>

\* the frames of performSave that have not returned yet
SaveAttempts ==
  {<<t, k>> \in ThreadIds \X (1..2) :
     k <= Len(threads[t]) /\ threads[t][k].fn = "performSave"}

\* a save that overwrites a divergent remote file on the user's choice
IsOverwrite(frame) ==
  frame.conflictOverwrite \/ frame.caller = "checkFileUpdates:overwrite"

ForceFlush ==
  \/ ManualSave
  \/ HandleBeforeUnload
  \/ HandleUnload
  \/ HandleVisibilityChange
  \/ HandlePageHide

\* C1: at any time at most one save request of the document is in flight
C1_OneSaveInFlight ==
  Cardinality({t \in ThreadIds : RequestInFlight(t)}) <= 1

\* C2: a save request is sent for a remote file whose hash differs from the
\* last-known hash only after the divergence was detected and resolved: by
\* the overwrite choice of this save, or by the caller that passed
\* skipConflictCheck after its own resolution
C2_DivergenceResolvedFirst ==
  [][\A t \in ThreadIds :
       (SendsSave(t) /\ remote.exists /\ Hash(remote.content) # lastFileHash)
         => (Top(threads'[t]).conflictOverwrite \/ Top(threads[t]).skipConflictCheck)]_vars

C4_Coalesced ==
  [][(UserEdit \/ ChangeNotification)
       => /\ saveTimers' <= 1
          /\ calls' = calls
          /\ saveTimeoutRef => (saveTimers' = saveTimers /\ saveTimeoutRef')
          /\ \A t \in ThreadIds : ~SendsSave(t)]_vars

\* C4: two qualifying edits have arrived, one timer is pending and no save
\* has been started
C4_Witness ==
  /\ edits = 2
  /\ calls = 0
  /\ saveTimers = 1
  /\ saveTimeoutRef
  /\ filePath # NoPath
  /\ isSignificantChange(ActiveElements(scene), scene)

\* C5: a force-flush (manual save, page hide/unload, visibility hidden)
\* cancels the pending debounce timer
C5_FlushCancelsTimer ==
  [][ForceFlush => (~saveTimeoutRef' /\ saveTimers' = 0)]_vars

\* C6: every save request for a real file is sent right after the remote-hash
\* comparison of its own attempt, or of the caller that resolved a divergence
\* and passed skipConflictCheck
C6_HashCheckedBeforeSave ==
  [][\A t \in ThreadIds :
       SendsSave(t)
         => (Top(threads[t]).skipConflictCheck \/ ~Top(threads[t]).alreadySaving)]_vars

\* C7: when a save fails, an error notification is on screen once the attempt
\* has ended, and the baseline fingerprint and the last-known hash are as
\* they were
C7_FailureNotified ==
  [][\A t \in ThreadIds :
       FailedSaveEnds(t) => (saveNotification'.isError /\ UNCHANGED clientRefs)]_vars

\* C8: once every save attempt has completed, successfully or not, no save is
\* marked as in flight
C8_IdleAfterSave ==
  SaveAttempts = {} => ~saveInProgress

\* C8: a save attempt has failed and ended, and nothing is running
C8_Witness ==
  /\ calls > 0
  /\ \A t \in ThreadIds : threads[t] = <<>>
  /\ saveNotification = Notification(MsgSaveFailed, TRUE)
  /\ ~saveInProgress

\* C9 as stated: in file-backed mode a notification whose snapshot has the
\* fingerprint of the last persisted one is not significant
C9_IdenticalNotSignificant ==
  (filePath # NoPath /\ Fingerprint(scene) = lastSavedElements)
    => ~isSignificantChange(ActiveElements(scene), scene)

\* C9: in file-backed mode a notification whose snapshot has the fingerprint
\* of the last persisted one and holds no tombstoned element is not
\* significant
C9_IdenticalLiveNotSignificant ==
  (filePath # NoPath /\ Fingerprint(scene) = lastSavedElements /\ DeletedCount(scene) = 0)
    => ~isSignificantChange(ActiveElements(scene), scene)

\* C9: a snapshot of MaxSnapshot live elements, listed out of id order, one
\* of them off the rounding grid, equal to the baseline; no timer was armed
C9_Witness ==
  /\ filePath = StandardPath
  /\ Len(scene) = MaxSnapshot
  /\ DeletedCount(scene) = 0
  /\ scene[1].id > scene[2].id
  /\ scene[1].x = 4
  /\ Fingerprint(scene) = lastSavedElements
  /\ ~saveTimeoutRef

\* C10: a snapshot with a tombstoned element is significant, whatever the
\* baseline
C10_TombstonesSignificant ==
  DeletedCount(scene) > 0 => isSignificantChange(ActiveElements(scene), scene)

\* C10: the snapshot has one tombstone more than the baseline and is
\* otherwise identical to it, and the notification armed the timer
C10_Witness ==
  /\ filePath = StandardPath
  /\ DeletedCount(scene) = 1
  /\ Len(ActiveElements(scene)) = 1
  /\ lastSavedElements = Stringify(buildElementSummary(ActiveElements(scene), 0))
  /\ saveTimeoutRef

\* els and other list the same elements, in any order
IsReordering(els, other) ==
  /\ Len(els) = Len(other)
  /\ {els[i] : i \in 1..Len(els)} = {other[i] : i \in 1..Len(other)}

\* C11: the fingerprint does not depend on the order of the element list:
\* every reordering of a snapshot has the fingerprint of the snapshot, both
\* as applyLoadedFile / performSave compute it and as loadData computes it
C11_OrderIndependent ==
  \A other \in Snapshots :
    IsReordering(scene, other)
      => /\ Fingerprint(other) = Fingerprint(scene)
         /\ buildElementSummary(other, 0) = buildElementSummary(scene, 0)

\* C11: two live elements at different places, listed in descending id
\* order, and a baseline that was taken from the list in ascending order
C11_Witness ==
  /\ Len(scene) = MaxSnapshot
  /\ DeletedCount(scene) = 0
  /\ scene[1].id > scene[2].id
  /\ toFixed2(scene[1].x) # toFixed2(scene[2].x)
  /\ lastSavedElements = Fingerprint(<<scene[2], scene[1]>>)
  /\ ~isSignificantChange(ActiveElements(scene), scene)

\* the last-known hash is the hash of the file as it is on the server
Synced ==
  /\ remote.exists
  /\ lastFileHash = Hash(remote.content)

\* the fingerprint performSave computed for the snapshot of a frame
FrameFingerprint(frame) ==
  Stringify(buildElementSummary(frame.elements, frame.deletedCount))

\* C12 as stated: while the server still reports the last-known hash, a save
\* attempt whose elements are those of the last persisted snapshot sends no
\* save request
C12_NoRedundantSave ==
  [][\A t \in ThreadIds :
       (SendsSave(t) /\ Synced)
         => FrameFingerprint(Top(threads[t])) # lastSavedElements]_vars

\* C12: while the server still reports the last-known hash, a save attempt
\* that is not a forced-backup save and whose snapshot has no tombstone and
\* the fingerprint of the last persisted one sends no save request; the
\* detector finds such a scene not significant and the timer callback does
\* not call performSave for it
C12_NoRedundantLiveSave ==
  [][/\ \A t \in ThreadIds :
          (/\ SendsSave(t)
           /\ Synced
           /\ Top(threads[t]).deletedCount = 0
           /\ ~Top(threads'[t]).shouldForceBackup)
            => FrameFingerprint(Top(threads[t])) # lastSavedElements
     /\ (/\ filePath # NoPath
         /\ DeletedCount(scene) = 0
         /\ Fingerprint(scene) = lastSavedElements)
          => /\ ~isSignificantChange(ActiveElements(scene), scene)
             /\ TimerFires => calls' = calls]_vars

\* C12: the drawn element was saved to a new file, a second save attempt with
\* the same elements has ended, and no request of it reached the server: the
\* ring is as empty as the first write left it
C12_Witness ==
  /\ filePath = StandardPath
  /\ edits = 1
  /\ calls = 2
  /\ externals = 0
  /\ \A t \in ThreadIds : threads[t] = <<>>
  /\ Len(scene) = 1
  /\ DeletedCount(scene) = 0
  /\ remote = File(scene)
  /\ Synced
  /\ Fingerprint(scene) = lastSavedElements
  /\ \A i \in SlotIds : ~backups[i].used
  /\ saveNotification = NoNotification

\* the step in which the performSave of thread t, after the user chose to
\* reload, resumes with the result of the load
ReloadEnds(t) ==
  /\ TopIs(threads, t, "performSave", "load")
  /\ threads'[t] # threads[t]

\* the step replaced the scene and SaveState by the snapshot on the server
RemoteApplied ==
  /\ scene' = remote.content
  /\ lastSavedElements' = Fingerprint(remote.content)
  /\ lastFileHash' = Hash(remote.content)

SuccessfulSaveEnds(t) ==
  /\ TopIs(threads, t, "performSave", "response")
  /\ Top(threads[t]).result.success
  /\ threads'[t] # threads[t]

Prompted(t) ==
  /\ threads[t] # <<>>
  /\ Top(threads[t]).pc = "info"
  /\ ~IsOverwrite(Top(threads[t]))
  /\ threads'[t] # <<>>
  /\ \/ Top(threads'[t]).pc = "load"
     \/ IsOverwrite(Top(threads'[t]))

\* C15: a divergent remote hash that was surfaced to the user is not surfaced
\* again: no save attempt and no poll prompts for the hash the marker holds
C15_PromptedOnce ==
  [][\A t \in ThreadIds :
       Prompted(t) => externalUpdateNotifiedHash # Hash(remote.content)]_vars

\* the step in which thread t, on the automatic path, resumes with the result
\* of the load
ObsidianLoadEnds(t) ==
  /\ threads[t] # <<>>
  /\ Top(threads[t]).pc = "obsidianLoad"
  /\ threads'[t] # threads[t]

\* after that step thread t is in the save that follows the load: forced
\* backup, no conflict check, the elements just loaded
Resaving(t) ==
  /\ RemoteApplied
  /\ TopIs(threads', t, "performSave", "info")
  /\ Top(threads'[t]).caller \in {"performSave", "checkFileUpdates:obsidian"}
  /\ Top(threads'[t]).skipConflictCheck
  /\ Top(threads'[t]).shouldForceBackup
  /\ Top(threads'[t]).elements = ActiveElements(remote.content)

ProbeAnswered(t) ==
  /\ TopIs(threads, t, "performSave", "info")
  /\ threads'[t] # threads[t]

\* nothing in the frame asks for a write: no tombstone, the fingerprint of
\* the baseline, no forced backup
NothingToPersist(frame) ==
  /\ frame.deletedCount = 0
  /\ ~frame.shouldForceBackup
  /\ FrameFingerprint(frame) = lastSavedElements

\* C17: when the remote file does not exist, or exists with the last-known
\* hash, the save goes on without a prompt and without a load: its request
\* is sent as the caller asked for it, unless there is nothing to persist
C17_NoPromptWhenInSync ==
  [][\A t \in ThreadIds :
       (ProbeAnswered(t) /\ (~remote.exists \/ Hash(remote.content) = lastFileHash))
         => /\ ~Prompted(t)
            /\ UNCHANGED externalUpdateNotifiedHash
            /\ IF NothingToPersist(Top(threads[t]))
               THEN threads'[t] = <<>>
               ELSE threads'[t] =
                      SetTop(threads[t], [Top(threads[t]) EXCEPT !.pc = "save"])]_vars

\* C17: the first write of a file that does not exist yet: the request is on
\* its way, not as an overwrite, and nothing was surfaced
C17_Witness ==
  /\ ~remote.exists
  /\ lastFileHash = NoHash
  /\ externalUpdateNotifiedHash = NoHash
  /\ \E t \in ThreadIds :
       /\ TopIs(threads, t, "performSave", "save")
       /\ ~Top(threads[t]).conflictOverwrite
       /\ ~Top(threads[t]).shouldForceBackup

\* the backup slots that exist
UsedSlots == {i \in DOMAIN backups : backups[i].used}

\* C18: at most 10 backup slots exist, numbered 00 to 09, whatever saves
\* were made: the slot the next backup goes to is one of these ten
C18_AtMostTenSlots ==
  /\ UsedSlots \subseteq SlotIds
  /\ Cardinality(UsedSlots) <= NumBackupSlots
  /\ NextBackupIndex(backups, clock) \in SlotIds

\* C18: the ring is full and slot 00 was written again after slot 09 was
\* filled: more than ten backups were made and ten slots exist
C18_Witness ==
  /\ UsedSlots = SlotIds
  /\ backups[0].mtime > backups[9].mtime

\* the step in which the server saved the file with a working backup step,
\* over a file that was there
BackupStep ==
  /\ Handled(1)
  /\ Top(threads'[1]).result.success
  /\ Top(threads'[1]).result.backup = "done"
  /\ remote.exists

\* that step wrote the pre-write bytes to slot i, stamped now, and nothing else
WroteSlot(i) ==
  backups' = [backups EXCEPT ![i] =
                [used |-> TRUE, content |-> remote.content, mtime |-> clock]]

PolicySlot(i) ==
  IF UsedSlots # SlotIds
  THEN ~backups[i].used /\ \A j \in SlotIds : ~backups[j].used => i <= j
  ELSE \A j \in SlotIds : backups[i].mtime <= backups[j].mtime

\* C20: a backup goes to the first empty slot if there is one, and to the
\* slot of oldest modification time if all ten are occupied; a full ring
\* stays a ring of exactly ten slots
C20_SlotSelection ==
  [][Handled(1)
       => /\ backups' # backups => \E i \in SlotIds : PolicySlot(i) /\ WroteSlot(i)
          /\ UsedSlots = SlotIds
               => {i \in DOMAIN backups' : backups'[i].used} = SlotIds]_vars

\* C20: eleven backups were made, ten of them forced inside one cooldown
\* window: ten slots exist and the eleventh overwrote slot 00, the oldest
C20_Witness ==
  /\ calls = 11
  /\ UsedSlots = SlotIds
  /\ clock = 1 + TickSec
  /\ TickSec < BackupCooldownSec
  /\ backups[0].mtime = clock
  /\ \A i \in SlotIds \ {0} : backups[i].mtime = 1

\* C21: a save whose backup step failed still writes the file and reports
\* success with the hash of what it wrote; the failure is in the log only
\* and the ring is left as it was
C21_BackupFailureKeepsSave ==
  [][(Handled(1) /\ Top(threads'[1]).result.backup = "failed")
       => /\ Top(threads'[1]).result.success
          /\ remote' = File(Top(threads[1]).elements)
          /\ Top(threads'[1]).result.hash = Hash(remote'.content)
          /\ UNCHANGED backups]_vars

\* C21: the second save of a file was forced, its backup step failed, and the
\* file holds what the request carried while the ring has no slot
C21_Witness ==
  /\ filePath = StandardPath
  /\ calls = 2
  /\ Running(1, "performSave", "response")
  /\ Top(threads[1]).shouldForceBackup
  /\ Top(threads[1]).result.backup = "failed"
  /\ Top(threads[1]).result.success
  /\ remote = File(Top(threads[1]).elements)
  /\ UsedSlots = {}

\* C22: for a target under the Obsidian path convention no backup slot ever
\* exists, whatever saves were made and whatever their force flag was
C22_ObsidianNoBackup ==
  filePath = ObsidianPath => UsedSlots = {}

\* C22: a forced save over an existing Obsidian file was written, its backup
\* step was skipped, and the ring has no slot
C22_Witness ==
  /\ filePath = ObsidianPath
  /\ calls = 2
  /\ Running(1, "performSave", "response")
  /\ Top(threads[1]).shouldForceBackup
  /\ Top(threads[1]).result.backup = "skipped"
  /\ Top(threads[1]).result.success
  /\ remote = File(Top(threads[1]).elements)
  /\ UsedSlots = {}

\* the step in which the checkFileUpdates of thread t resumes with what
\* getFileInfo returned
PollAnswered(t) ==
  /\ TopIs(threads, t, "checkFileUpdates", "info")
  /\ threads'[t] # threads[t]

\* C23: a poll goes beyond its getFileInfo only on an answer that reports an
\* existing file with a divergent hash not surfaced yet; in every other case,
\* the unreachable service with its null answer included, it ends there and
\* leaves the scene, SaveState, the timer and the notification as they were
C23_FailedPollChangesNothing ==
  [][\A t \in ThreadIds :
       PollAnswered(t)
         => \/ /\ threads'[t] = <<>>
               /\ UNCHANGED <<scene, clientRefs, saveInProgress, timerVars,
                              saveNotification, localStorage, serverVars, calls>>
            \/ /\ remote.exists
               /\ Hash(remote.content) # lastFileHash
               /\ Hash(remote.content) # externalUpdateNotifiedHash
               /\ externalUpdateNotifiedHash' = Hash(remote.content)]_vars

\* C23: the file diverges from what the client knows and no one rewrote it
\* since; a poll ran and ended, and nothing was surfaced, loaded or shown: it
\* had no answer
C23_Witness ==
  /\ filePath # NoPath
  /\ externals = 0
  /\ calls = 0
  /\ edits = 1
  /\ lastCheckTime = 1
  /\ \A t \in ThreadIds : threads[t] = <<>>
  /\ remote.exists
  /\ lastFileHash # Hash(remote.content)
  /\ externalUpdateNotifiedHash # Hash(remote.content)
  /\ saveNotification = NoNotification
  /\ saveTimeoutRef

\* the step in which loadData resolves the initial scene
InitialLoad == ~loaded /\ loaded'

\* C24: when the file of the path does not exist, loadData takes the blank
\* template as the scene, with the baseline of an empty drawing and no
\* last-known hash, and puts no notification on screen
C24_MissingFileIsNewFile ==
  [][(InitialLoad /\ filePath # NoPath /\ ~remote.exists)
       => /\ scene' = initialDataElements
          /\ lastSavedElements' = Stringify(buildElementSummary(<<>>, 0))
          /\ lastFileHash' = NoHash
          /\ externalUpdateNotifiedHash' = NoHash
          /\ saveNotification' = NoNotification
          /\ UNCHANGED <<remote, backups, threads>>]_vars

\* C24: a path without a file was opened: the template is on the canvas,
\* nothing is on screen, and the file still does not exist
C24_Witness ==
  /\ filePath # NoPath
  /\ loaded
  /\ ~remote.exists
  /\ scene = initialDataElements
  /\ lastSavedElements = Stringify(buildElementSummary(<<>>, 0))
  /\ lastFileHash = NoHash
  /\ saveNotification = NoNotification
  /\ edits = 0
  /\ calls = 0

\* equality as the tests take it: properties that are undefined do not count
toEqual(a, b) == StringifyObject(a) = StringifyObject(b)

\* C27: whatever the store holds, a value whose save the store accepted is the
\* value the matching load returns: elements, app state (up to properties
\* that are undefined) and binary files alike
C27_RoundTrip ==
  /\ \A elements \in SavedElements :
       loadElementsFromLocalStorage(
         saveElementsToLocalStorage(localStorage, elements, TRUE)) = elements
  /\ \A appState \in AppStates :
       toEqual(loadAppStateFromLocalStorage(
                 saveAppStateToLocalStorage(localStorage, appState, TRUE)), appState)
  /\ \A files \in BinaryFilesValues :
       loadBinaryFilesFromLocalStorage(
         saveBinaryFilesToLocalStorage(localStorage, files, TRUE)) = files

\* C27: an element, an app state with a property set and a binary file were
\* saved, and the element was read back to the canvas
C27_Witness ==
  /\ Len(scene) = 1
  /\ ~NoItem(localStorage, ELEMENTS_KEY)
  /\ localStorage[ELEMENTS_KEY] = Stringify(scene)
  /\ loadElementsFromLocalStorage(localStorage) = scene
  /\ loadAppStateFromLocalStorage(localStorage) # Null
  /\ "viewBackgroundColor" \in DOMAIN loadAppStateFromLocalStorage(localStorage)
  /\ loadBinaryFilesFromLocalStorage(localStorage) # NoFiles

\* nothing usable is stored under the key: it is not set, or holds '' or a
\* string that is not JSON
Unusable(key) ==
  NoItem(localStorage, key) \/ ParseFails(localStorage[key])

\* C28: when nothing is stored under a key, or what is stored is not JSON,
\* the load function returns its default and no exception escapes it: [] for
\* elements, null for the app state, {} for binary files
C28_DefaultsOnBadData ==
  /\ Unusable(ELEMENTS_KEY)
       => loadElementsFromLocalStorage(localStorage) = NoElements
  /\ Unusable(APP_STATE_KEY)
       => loadAppStateFromLocalStorage(localStorage) = Null
  /\ Unusable(BINARY_FILES_KEY)
       => loadBinaryFilesFromLocalStorage(localStorage) = NoFiles

\* C28: text that is not JSON sits under the elements key, nothing under the
\* app state key and blanks under the binary files key
C28_Witness ==
  /\ ELEMENTS_KEY \in DOMAIN localStorage
  /\ localStorage[ELEMENTS_KEY] = CorruptString
  /\ APP_STATE_KEY \notin DOMAIN localStorage
  /\ BINARY_FILES_KEY \in DOMAIN localStorage
  /\ localStorage[BINARY_FILES_KEY] = BlankString
  /\ loadElementsFromLocalStorage(localStorage) = NoElements

\* C29: clearLocalStorage removes the three keys of the application and no
\* other: every other key stays set, with the string it had
C29_ClearsOwnKeysOnly ==
  LET cleared == clearLocalStorage(localStorage)
  IN /\ DOMAIN cleared = DOMAIN localStorage \ {ELEMENTS_KEY, APP_STATE_KEY, BINARY_FILES_KEY}
     /\ \A key \in DOMAIN cleared : cleared[key] = localStorage[key]

\* C29: elements were stored and read back, the store was cleared, and the
\* key of the other code is still set
C29_Witness ==
  /\ Len(scene) = 1
  /\ DOMAIN localStorage = {OTHER_KEY}
  /\ localStorage[OTHER_KEY] = CorruptString

\* the handler has answered a load of a file that is there and holds no
\* character, or blanks only
EmptyFileLoaded ==
  /\ threads[1] # <<>>
  /\ Top(threads[1]).fn = "loadExcalidrawFile"
  /\ Top(threads[1]).file.exists
  /\ Top(threads[1]).file.content \in {EmptyString, BlankString}

\* C25: a load of a file that is there and empty (no bytes, or blanks only)
\* is answered with a drawing without elements, never with an error
C25_EmptyFileLoadsAsNew ==
  EmptyFileLoaded =>
    /\ Top(threads[1]).response.status = 200
    /\ Top(threads[1]).response.body = DefaultSnapshot

\* performSave was called in this step with the snapshot `elements`: with a
\* file its frame holds the snapshot for the request, without one the
\* snapshot went to localStorage if the browser took the write
SaveCalledWith(elements) ==
  /\ calls' = calls + 1
  /\ IF filePath # NoPath
     THEN \E t \in ThreadIds :
            /\ threads[t] = <<>>
            /\ TopIs(threads', t, "performSave", "info")
            /\ Top(threads'[t]).elements = elements
            /\ Top(threads'[t]).deletedCount = DeletedCount(scene)
     ELSE localStorage' \in
            {localStorage, saveElementsToLocalStorage(localStorage, elements, TRUE)}

\* C30: when the debounce timer fires, the decision and the content are those
\* of the canvas at that moment: if its snapshot is significant, performSave
\* is called with it; otherwise no save is started; either way no timer and
\* no pending save are left
C30_TimerUsesLiveSnapshot ==
  [][TimerFires =>
       /\ IF isSignificantChange(ActiveElements(scene), scene)
          THEN SaveCalledWith(ActiveElements(scene))
          ELSE UNCHANGED <<calls, threads, localStorage, saveInProgress>>
       /\ ~pendingSave'
       /\ ~saveTimeoutRef']_vars

\* C30: the timer was armed by an edit, the canvas was then replaced by the
\* content of the file, and the timer fired on a snapshot that is not
\* significant: no save was ever started
C30_Witness ==
  /\ loaded
  /\ filePath # NoPath
  /\ edits >= 1
  /\ calls = 0
  /\ saveTimers = 0
  /\ ~pendingSave
  /\ ~saveTimeoutRef
  /\ Len(scene) = 1
  /\ ~isSignificantChange(ActiveElements(scene), scene)
  /\ \A t \in ThreadIds : threads[t] = <<>>

\* the file holds what a save of this client has just written, and the
\* client has not read the response of that save yet
OwnSaveUnacknowledged ==
  \E u \in ThreadIds :
    /\ TopIs(threads, u, "performSave", "response")
    /\ Top(threads[u]).result.success
    /\ remote.exists
    /\ Top(threads[u]).result.hash = Hash(remote.content)

\* the step in which thread t, back from getFileInfo, takes the remote hash
\* for an external update: it prompts, or loads on the automatic path
TakesAsExternalUpdate(t) ==
  \/ Prompted(t)
  \/ /\ threads[t] # <<>>
     /\ Top(threads[t]).pc = "info"
     /\ threads'[t] # <<>>
     /\ Top(threads'[t]).pc = "obsidianLoad"

\* C26: the hash that results from a save of this client never sets off a
\* reload or another save: no probe takes it for an external update
C26_OwnHashNeverTriggers ==
  [][\A t \in ThreadIds :
       TakesAsExternalUpdate(t) => ~OwnSaveUnacknowledged]_vars

\* thread t runs a checkFileUpdates call, with or without a save below it
IsCheck(th, t) == th[t] # <<>> /\ th[t][1].fn = "checkFileUpdates"

\* the step in which the checkFileUpdates of thread t calls performSave
CheckStartsSave(t) ==
  /\ IsCheck(threads, t)
  /\ Len(threads[t]) = 1
  /\ Len(threads'[t]) = 2

ExternalChangePending ==
  /\ loaded
  /\ filePath # NoPath
  /\ externals > 0
  /\ remote.exists
  /\ Hash(remote.content) # lastFileHash

\* the hash of the remote file has been surfaced or taken over
RemoteHashKnown ==
  \/ externalUpdateNotifiedHash = Hash(remote.content)
  \/ lastFileHash = Hash(remote.content)

\* a getFileInfo request is under way
ProbeUnderWay ==
  \E t \in ThreadIds : threads[t] # <<>> /\ Top(threads[t]).pc = "info"

\* C32: while a file is open, an external change of the remote file is
\* followed, whether or not the user edits, by a probe of the remote
\* metadata, unless its hash is known by then
C32_ExternalChangeProbed ==
  ExternalChangePending ~> (ProbeUnderWay \/ RemoteHashKnown)

\* the save request of an automatic save has failed: the service was not
\* reachable or refused, and the failure is on its way to the client
AutoSaveFailed ==
  \E t \in ThreadIds :
    /\ TopIs(threads, t, "performSave", "response")
    /\ Top(threads[t]).caller = Discards
    /\ ~Top(threads[t]).result.success

\* a save request is on the wire
SaveRequested ==
  \E t \in ThreadIds : TopIs(threads, t, "performSave", "save")

\* C33: a failed automatic save is followed, without any action of the user,
\* by another save request
C33_FailedSaveRetried ==
  AutoSaveFailed ~> SaveRequested

\* the service has failed a request: a save-file request came back without
\* success, or the initial load of a file that is there returned nothing
ServiceFailureSeen ==
  \/ \E t \in ThreadIds :
       /\ TopIs(threads, t, "performSave", "response")
       /\ ~Top(threads[t]).result.success
  \/ /\ loaded
     /\ filePath # NoPath
     /\ remote.exists
     /\ lastFileHash = NoHash
     /\ calls = 0
     /\ externals = 0

\* the bound on performSave calls keeps a pending timer or a pending
\* continuation from making its call
OutOfCalls ==
  /\ calls = MaxCalls
  /\ \/ saveTimers > 0
     \/ \E t \in ThreadIds :
          threads[t] # <<>> /\ Top(threads[t]).pc = "obsidianLoad"

\* the remote file holds what is on the canvas
Persisted ==
  /\ remote.exists
  /\ remote.content = ActiveElements(scene)

\* C34: when the user has edited a file-backed drawing, no request fails and
\* no other program writes the file, the remote file ends up holding what is
\* on the canvas, and keeps holding it
C34_EditsPersisted ==
  ([](filePath # NoPath) /\ <>(edits > 0) /\ []~ServiceFailureSeen
     /\ [](externals = 0) /\ []~OutOfCalls)
    => <>[]Persisted

\* the baseline is the fingerprint of the elements the remote file holds; the
\* count of tombstones on the canvas, which is no part of the file, aside
BaselineOfRemote ==
  /\ ~ParseFails(lastSavedElements)
  /\ [Parse(lastSavedElements) EXCEPT !.deletedCount = 0]
       = buildElementSummary(ActiveElements(remote.content), 0)

\* C35: when no save attempt is running, a save or a load has succeeded and
\* no other program has written the file, the baseline is the fingerprint of
\* what the remote file holds and the last-known hash is its hash
C35_BaselineMatchesRemote ==
  (/\ loaded
   /\ filePath # NoPath
   /\ SaveAttempts = {}
   /\ externals = 0
   /\ lastFileHash # NoHash)
    => (Synced /\ BaselineOfRemote)

\* the save attempt of thread t makes its own hash comparison: no caller
\* resolved a divergence for it and no other attempt was running at its start
ComparesItself(t) ==
  /\ ~Top(threads[t]).skipConflictCheck
  /\ ~Top(threads[t]).alreadySaving

\* C36: a save attempt that makes its own comparison sends no request for an
\* existing remote file whose hash differs from the last-known hash unless
\* the comparison was completed and the user chose to overwrite; a probe
\* that failed completes no comparison
C36_NoSaveAfterFailedProbe ==
  [][\A t \in ThreadIds :
       (/\ SendsSave(t)
        /\ ComparesItself(t)
        /\ remote.exists
        /\ Hash(remote.content) # lastFileHash)
         => Top(threads'[t]).conflictOverwrite]_vars

\* the step in which the manualSave running in thread t ends
ManualSaveEnds(t) ==
  /\ threads[t] # <<>>
  /\ threads[t][1].caller = "manualSave"
  /\ threads'[t] = <<>>

\* C37: when a manual save ends with the success notification on screen, the
\* save has succeeded: it ends on a successful response, not on a failed or
\* rejected one and not on a reload
C37_SavedOnlyOnSuccess ==
  [][\A t \in ThreadIds :
       (ManualSaveEnds(t) /\ saveNotification' = Notification(MsgSaved, FALSE))
         => SuccessfulSaveEnds(t)]_vars

\* C38: the flag is set as long as a save attempt is running; it is never
\* clear while a save request is in flight
C38_FlagWhileSaving ==
  /\ SaveAttempts # {} => saveInProgress
  /\ (\E t \in ThreadIds : RequestInFlight(t)) => saveInProgress

\* C39: at most one debounce timer is armed, and saveTimeoutRef holds a
\* handle exactly while one is: a change is never coalesced into a timer that
\* has fired or was cancelled
C39_OneTimerHandleExact ==
  /\ saveTimers <= 1
  /\ saveTimeoutRef <=> (saveTimers = 1)

\* C39: a timer has fired and started a save, and a later edit has armed the
\* next one
C39_Witness ==
  /\ edits = 2
  /\ calls >= 1
  /\ \E t \in ThreadIds :
       /\ threads[t] # <<>>
       /\ threads[t][1].fn = "performSave"
       /\ threads[t][1].caller = Discards
       /\ Len(threads[t][1].elements) = 1
  /\ Len(scene) = 1
  /\ scene[1].isDeleted
  /\ saveTimers = 1
  /\ saveTimeoutRef
  /\ pendingSave

=============================================================================
